---- MODULE Spec2Model ----
(***************************************************************************)
(* Model of the AI-tools backend: the Flask application of src/ai_tools.py *)
(* (six handlers with a lazily loaded model each, process_request and      *)
(* health_check) and the serverless entrypoint of src/api/ai_tools.py (six *)
(* mock handlers and handler).                                             *)
(*                                                                         *)
(* Representation.  A Python str that the code inspects character by       *)
(* character (a request's input) is a sequence of one-character strings;   *)
(* a str the code only builds is a TLA+ string.  Str turns the first into  *)
(* the second.  A JSON value is a pair <<type, payload>>.  A float score   *)
(* is an integer number of hundredths of a percent (0.87 is 8700), so that *)
(* the format {:.2%} is exact.                                             *)
(***************************************************************************)
EXTENDS Integers, Sequences, FiniteSets, TLC

VARIABLES tools, mock_tools, req, resp, pc, trace, threads, initCount

vars == <<tools, mock_tools, req, resp, pc, trace, threads, initCount>>

(* ------------------------------------------------------------------ *)
(* Bounds of the model                                                 *)
(* ------------------------------------------------------------------ *)

\* Longest input text of the serverless check, in chunks of Chunks.
MaxChunks == 3

\* Requests each thread of the threaded Flask server handles.
MaxRequestsPerThread == 1

\* Number of server threads of the threaded Flask server.
NumThreads == 2

(* ------------------------------------------------------------------ *)
(* Python strings                                                      *)
(* ------------------------------------------------------------------ *)

RECURSIVE Str(_)
\* The TLA+ string spelt by a sequence of one-character strings.
Str(cs) == IF cs = <<>> THEN "" ELSE Head(cs) \o Str(Tail(cs))

Uppers == <<"A","B","C","D","E","F","G","H","I","J","K","L","M",
            "N","O","P","Q","R","S","T","U","V","W","X","Y","Z">>
Lowers == <<"a","b","c","d","e","f","g","h","i","j","k","l","m",
            "n","o","p","q","r","s","t","u","v","w","x","y","z">>

LowerChar(c) ==
    IF \E i \in 1..Len(Uppers) : Uppers[i] = c
    THEN Lowers[CHOOSE i \in 1..Len(Uppers) : Uppers[i] = c]
    ELSE c

UpperChar(c) ==
    IF \E i \in 1..Len(Lowers) : Lowers[i] = c
    THEN Uppers[CHOOSE i \in 1..Len(Lowers) : Lowers[i] = c]
    ELSE c

\* str.lower()
Lower(cs) == [i \in 1..Len(cs) |-> LowerChar(cs[i])]

\* str.capitalize(): first character upper-cased, the rest lower-cased
Capitalize(cs) ==
    [i \in 1..Len(cs) |-> IF i = 1 THEN UpperChar(cs[i]) ELSE LowerChar(cs[i])]

Whitespace == {" ", "\n", "\t"}

RECURSIVE SplitOn(_, _, _)
\* The pieces of cs between the characters of seps, empty pieces included
\* (str.split(sep)); cur is the piece being read.
SplitOn(cs, seps, cur) ==
    IF cs = <<>> THEN <<cur>>
    ELSE IF Head(cs) \in seps
         THEN <<cur>> \o SplitOn(Tail(cs), seps, <<>>)
         ELSE SplitOn(Tail(cs), seps, Append(cur, Head(cs)))

\* str.split(): the pieces between runs of whitespace, empty pieces dropped
Split(cs) == SelectSeq(SplitOn(cs, Whitespace, <<>>), LAMBDA w : w # <<>>)

RECURSIVE LStrip(_)
LStrip(cs) ==
    IF cs # <<>> /\ Head(cs) \in Whitespace THEN LStrip(Tail(cs)) ELSE cs

RECURSIVE RStrip(_)
RStrip(cs) ==
    IF cs # <<>> /\ cs[Len(cs)] \in Whitespace
    THEN RStrip(SubSeq(cs, 1, Len(cs) - 1))
    ELSE cs

\* str.strip()
Strip(cs) == RStrip(LStrip(cs))

\* str.replace(old, new) for one-character old
Replace(cs, old, new) == [i \in 1..Len(cs) |-> IF cs[i] = old THEN new ELSE cs[i]]

RECURSIVE Join(_, _)
\* sep.join(parts)
Join(sep, parts) ==
    IF parts = <<>> THEN <<>>
    ELSE IF Len(parts) = 1 THEN parts[1]
    ELSE parts[1] \o sep \o Join(sep, Tail(parts))

Min(a, b) == IF a < b THEN a ELSE b
Max(a, b) == IF a > b THEN a ELSE b

\* format(score, ".2%") of a score given in hundredths of a percent
FormatPercent(bp) ==
    ToString(bp \div 100) \o "."
        \o ToString((bp % 100) \div 10) \o ToString(bp % 10) \o "%"

(* ------------------------------------------------------------------ *)
(* JSON values and Python exceptions                                   *)
(* ------------------------------------------------------------------ *)

JNull == <<"null", "None">>
JStr(s) == <<"str", s>>
JNum(n) == <<"num", n>>
JList(items) == <<"list", items>>

IsStr(v) == v[1] = "str"

\* the Python type name used in AttributeError / TypeError messages
TypeName(v) ==
    CASE v[1] = "null" -> "NoneType"
      [] v[1] = "num"  -> "int"
      [] v[1] = "list" -> "list"
      [] OTHER         -> "str"

\* what an f-string interpolates for a tool value: str(v)
Interpolate(v) ==
    CASE v[1] = "null" -> "None"
      [] v[1] = "num"  -> ToString(v[2])
      [] v[1] = "list" -> "[...]"
      [] OTHER         -> v[2]

\* what an f-string interpolates for an input (a str input is a character sequence)
InterpolateInput(v) == IF IsStr(v) THEN Str(v[2]) ELSE Interpolate(v)

Return(value) == [kind |-> "return", value |-> value]
Raise(message) == [kind |-> "raise", message |-> message]

AttributeError(v, attr) ==
    Raise("'" \o TypeName(v) \o "' object has no attribute '" \o attr \o "'")

(* ------------------------------------------------------------------ *)
(* src/api/ai_tools.py: the six mock handlers                          *)
(* ------------------------------------------------------------------ *)

positive_words ==
    { <<"g","o","o","d">>,
      <<"g","r","e","a","t">>,
      <<"e","x","c","e","l","l","e","n","t">>,
      <<"a","m","a","z","i","n","g">>,
      <<"w","o","n","d","e","r","f","u","l">>,
      <<"h","a","p","p","y">>,
      <<"l","o","v","e">>,
      <<"b","e","s","t">>,
      <<"f","a","n","t","a","s","t","i","c">> }

negative_words ==
    { <<"b","a","d">>,
      <<"t","e","r","r","i","b","l","e">>,
      <<"a","w","f","u","l">>,
      <<"h","o","r","r","i","b","l","e">>,
      <<"h","a","t","e">>,
      <<"w","o","r","s","t">>,
      <<"p","o","o","r">>,
      <<"s","a","d">>,
      <<"d","i","s","a","p","p","o","i","n","t","i","n","g">> }

\* Sentiment with a tie counted as positive (>= for >).
SentimentFaultyTie(pos_count, neg_count) ==
    IF pos_count >= neg_count
    THEN [label |-> "POSITIVE", confidence |-> Min(9500, 6000 + pos_count * 1000)]
    ELSE [label |-> "NEGATIVE", confidence |-> Min(9500, 6000 + neg_count * 1000)]

\* The label of (pos_count, neg_count) and its confidence in hundredths of a percent.
Sentiment(pos_count, neg_count) ==
    IF pos_count > neg_count
    THEN [label |-> "POSITIVE", confidence |-> Min(9500, 6000 + pos_count * 1000)]
    ELSE IF neg_count > pos_count
    THEN [label |-> "NEGATIVE", confidence |-> Min(9500, 6000 + neg_count * 1000)]
    ELSE [label |-> "NEUTRAL", confidence |-> 5000]

\* set(text_input.lower().split())
Words(cs) == LET ws == Split(Lower(cs)) IN {ws[i] : i \in 1..Len(ws)}

MockSemantics(input) ==
    IF ~IsStr(input) THEN AttributeError(input, "lower")
    ELSE LET words == Words(input[2])
             s == Sentiment(Cardinality(words \cap positive_words),
                            Cardinality(words \cap negative_words))
         IN  Return([result |-> "Sentiment: " \o s.label \o " (confidence: "
                                 \o FormatPercent(s.confidence) \o ")"])

categories ==
    << <<"cat", 8700>>, <<"dog", 7200>>, <<"bird", 6500>>,
       <<"landscape", 7800>>, <<"food", 8100>>, <<"person", 6900>> >>

\* random.sample(categories, 3): every ordered choice of 3 distinct entries
Samples ==
    { <<categories[i], categories[j], categories[k]>> :
        <<i, j, k>> \in { t \in (1..Len(categories)) \X (1..Len(categories)) \X (1..Len(categories)) :
                            t[1] # t[2] /\ t[1] # t[3] /\ t[2] # t[3] } }

RECURSIVE InsertDesc(_, _)
\* p put into the descending list after every entry whose score is >= its own
InsertDesc(sorted, p) ==
    IF sorted = <<>> THEN <<p>>
    ELSE IF Head(sorted)[2] >= p[2]
         THEN <<Head(sorted)>> \o InsertDesc(Tail(sorted), p)
         ELSE <<p>> \o sorted

\* SortedDesc with the sort left out.
SortedDescFaultyUnsorted(selected) == selected

RECURSIVE SortedDesc(_)
\* sorted(selected, key=lambda x: x[1], reverse=True), a stable sort
SortedDesc(selected) ==
    IF selected = <<>> THEN <<>>
    ELSE InsertDesc(SortedDesc(SubSeq(selected, 1, Len(selected) - 1)),
                    selected[Len(selected)])

RECURSIVE LabelLines(_)
LabelLines(preds) ==
    IF preds = <<>> THEN ""
    ELSE "- " \o Head(preds)[1] \o ": " \o FormatPercent(Head(preds)[2]) \o "\n"
            \o LabelLines(Tail(preds))

MockImageClassifier(input, selected) ==
    Return([result |-> "I see:\n" \o LabelLines(SortedDesc(selected))])

\* SummaryCount without the division by 3 and the cap of 3.
SummaryCountFaultyAll(n) == Max(1, n)

\* min(3, max(1, len(sentences)//3))
SummaryCount(n) == Min(3, Max(1, n \div 3))

\* The summary of a text, as characters.
Summary(cs) ==
    LET pieces == SplitOn(Replace(Replace(cs, "!", "."), "?", "."), {"."}, <<>>)
        kept == SelectSeq(pieces, LAMBDA s : Strip(s) # <<>>)
        sentences == [i \in 1..Len(kept) |-> Strip(kept[i])]
        summary_count == SummaryCount(Len(sentences))
    IN  Join(<<".", " ">>, SubSeq(sentences, 1, Min(summary_count, Len(sentences))))
            \o <<".">>

\* MockTextSummarizer indexing the first sentence of a text that has none.
MockTextSummarizerFaultyIndexError(input) ==
    IF ~IsStr(input) THEN AttributeError(input, "replace")
    ELSE IF \A i \in 1..Len(input[2]) : input[2][i] \in Whitespace \cup {".", "!", "?"}
    THEN Raise("list index out of range")
    ELSE Return([result |-> Str(Summary(input[2]))])

\* TextSummarizer.process_query of src/api/ai_tools.py
MockTextSummarizer(input) ==
    IF ~IsStr(input) THEN AttributeError(input, "replace")
    ELSE Return([result |-> Str(Summary(input[2]))])

TOPIC == "{topic}"

RECURSIVE Format(_, _)
\* template.format(topic=topic) of a template given as its literal pieces and TOPIC marks
Format(template, topic) ==
    IF template = <<>> THEN ""
    ELSE (IF Head(template) = TOPIC THEN topic ELSE Head(template))
            \o Format(Tail(template), topic)

joke_templates ==
    << <<"Why did the ", TOPIC, " cross the road? To get to the other side!">>,
       <<"What do you call a ", TOPIC, " that can't stop talking? A chatter-", TOPIC, "!">>,
       <<"How many ", TOPIC, "s does it take to change a lightbulb? Just one, but it takes forever!">>,
       <<"A ", TOPIC, " walks into a bar. The bartender says, 'We don't serve ", TOPIC, "s here!'">>,
       <<"What's a ", TOPIC, "'s favorite type of music? Anything with a good beat!">> >>

MockJokeGenerator(input, choice) ==
    Return([result |-> "Here's a funny joke about " \o InterpolateInput(input) \o ":\n"
                        \o Format(joke_templates[choice], InterpolateInput(input))])

haiku_templates ==
    << <<TOPIC, " shines bright\nIn the quiet morning light\nPeace fills the new day">>,
       <<"Dancing ", TOPIC, "\nWhispers secrets to the wind\nNature's gentle song">>,
       <<TOPIC, " stands tall\nSilent witness to the world\nTimeless and serene">> >>

MockHaikuWriter(input, choice) ==
    IF ~IsStr(input) THEN AttributeError(input, "capitalize")
    ELSE Return([result |-> "Write a haiku (5-7-5 syllables) about " \o Str(input[2]) \o ":\n"
                             \o Format(haiku_templates[choice], Str(Capitalize(input[2])))])

answers ==
    << "Because that's how nature designed it to work.",
       "Because it helps maintain balance in the system.",
       "Because of scientific principles we're still discovering.",
       "Because that's what makes it unique and special.",
       "Because evolution favored this adaptation over time." >>

MockQuestionAnswerer(input, choice) ==
    Return([result |-> "Question: " \o InterpolateInput(input) \o "\nAnswer: " \o answers[choice]])

\* The random draws one call of a mock handler makes.
MockDraws(cls) ==
    CASE cls = "ImageClassifier"  -> Samples
      [] cls = "JokeGenerator"    -> 1..Len(joke_templates)
      [] cls = "HaikuWriter"      -> 1..Len(haiku_templates)
      [] cls = "QuestionAnswerer" -> 1..Len(answers)
      [] OTHER                    -> {0}

\* cls.process_query(input) of the mock handlers, with its random draw
MockProcessQuery(cls, input, draw) ==
    CASE cls = "SemanticsAnalyzer" -> MockSemantics(input)
      [] cls = "ImageClassifier"   -> MockImageClassifier(input, draw)
      [] cls = "TextSummarizer"    -> MockTextSummarizer(input)
      [] cls = "JokeGenerator"     -> MockJokeGenerator(input, draw)
      [] cls = "HaikuWriter"       -> MockHaikuWriter(input, draw)
      [] cls = "QuestionAnswerer"  -> MockQuestionAnswerer(input, draw)

(* ------------------------------------------------------------------ *)
(* src/ai_tools.py: the six handlers backed by an inference pipeline   *)
(* ------------------------------------------------------------------ *)

\* What the external pipeline may return to each class of handler (opaque).
ExternalOutputs(cls) ==
    CASE cls = "SemanticsAnalyzer"
            -> { [label |-> "POSITIVE", score |-> 9998], [label |-> "NEGATIVE", score |-> 9991] }
      [] cls = "ImageClassifier"
            -> { << <<"tabby", 6240>>, <<"tiger cat", 2105>>, <<"Egyptian cat", 873>> >> }
      [] cls = "TextSummarizer"
            -> { "summary text" }
      [] OTHER
            -> { "generated text" }

\* An image payload that base64-decodes to an image PIL can open.
DecodableImages == { <<"i","V","B","O">> }

\* image_data.split(',')[1] if ',' in image_data else image_data
ImagePayload(cs) ==
    IF \E i \in 1..Len(cs) : cs[i] = "," THEN SplitOn(cs, {","}, <<>>)[2] ELSE cs

\* NeedsInit without the test of self.model.
NeedsInitFaultyAlways(model) == TRUE

\* if self.model is None
NeedsInit(model) == model = "None"

\* ModelAfterInit recording a failed load in self.model.
ModelAfterInitFaultySticky(model, initOk) == IF initOk THEN "Loaded" ELSE "Failed"

\* self.model = pipeline(...): assigned only when pipeline() returns
ModelAfterInit(model, initOk) == IF initOk THEN "Loaded" ELSE model

\* The lines of a process_query after the lazy initialization.
RealInvoke(cls, input, callOk, ext) ==
    CASE cls = "SemanticsAnalyzer" ->
            IF ~IsStr(input) \/ ~callOk THEN Raise("pipeline call failed")
            ELSE Return([result |-> "Sentiment: " \o ext.label \o " (confidence: "
                                     \o FormatPercent(ext.score) \o ")"])
      [] cls = "ImageClassifier" ->
            IF ~IsStr(input)
            THEN Raise("argument of type '" \o TypeName(input) \o "' is not iterable")
            ELSE IF ImagePayload(input[2]) \notin DecodableImages
            THEN Raise("cannot identify image file")
            ELSE IF ~callOk THEN Raise("pipeline call failed")
            ELSE Return([result |-> "I see:\n" \o LabelLines(ext)])
      [] cls = "TextSummarizer" ->
            IF ~IsStr(input) \/ ~callOk THEN Raise("pipeline call failed")
            ELSE Return([result |-> ext])
      [] OTHER ->
            IF ~callOk THEN Raise("pipeline call failed")
            ELSE Return([result |-> ext])

\* The message of the exception an outcome raises, "" when it returns.
Raised(outcome) == IF outcome.kind = "raise" THEN outcome.message ELSE ""

\* One call made while a request is handled.
Call(name, op, outcome) == [tool |-> name, op |-> op, raised |-> Raised(outcome)]

\* tool.process_query(input) on a handler whose model field is `model`:
\* the model field afterwards, the calls made (in call order), and the outcome.
RealProcessQuery(name, cls, model, input, initOk, callOk, ext) ==
    IF NeedsInit(model)
    THEN LET init == IF initOk THEN Return("Loaded") ELSE Raise("pipeline could not be loaded")
             outcome == IF initOk THEN RealInvoke(cls, input, callOk, ext) ELSE init
         IN  [model |-> ModelAfterInit(model, initOk),
              events |-> <<Call(name, "process_query", outcome), Call(name, "init_model", init)>>,
              outcome |-> outcome]
    ELSE LET outcome == RealInvoke(cls, input, callOk, ext)
         IN  [model |-> model,
              events |-> <<Call(name, "process_query", outcome)>>,
              outcome |-> outcome]

(* ------------------------------------------------------------------ *)
(* The registries and the dispatchers                                  *)
(* ------------------------------------------------------------------ *)

\* tools = {...} of src/ai_tools.py, in insertion order
FlaskRegistry ==
    << [name |-> "semantics",        cls |-> "SemanticsAnalyzer", model |-> "None"],
       [name |-> "image-classifier", cls |-> "ImageClassifier",   model |-> "None"],
       [name |-> "summarizer",       cls |-> "TextSummarizer",    model |-> "None"],
       [name |-> "joke",             cls |-> "JokeGenerator",     model |-> "None"],
       [name |-> "haiku",            cls |-> "HaikuWriter",       model |-> "None"],
       [name |-> "question",         cls |-> "QuestionAnswerer",  model |-> "None"] >>

\* tools = {...} of src/api/ai_tools.py, in insertion order
MockRegistry ==
    << [name |-> "semantics",        cls |-> "SemanticsAnalyzer"],
       [name |-> "image-classifier", cls |-> "ImageClassifier"],
       [name |-> "summarizer",       cls |-> "TextSummarizer"],
       [name |-> "joke",             cls |-> "JokeGenerator"],
       [name |-> "haiku",            cls |-> "HaikuWriter"],
       [name |-> "question",         cls |-> "QuestionAnswerer"] >>

\* Keys listing only the handlers whose model is loaded.
KeysFaultyLoadedOnly(registry) ==
    LET loaded == SelectSeq(registry, LAMBDA e : "model" \in DOMAIN e /\ e.model = "Loaded")
    IN  [i \in 1..Len(loaded) |-> loaded[i].name]

\* list(tools.keys())
Keys(registry) == [i \in 1..Len(registry) |-> registry[i].name]

\* A dict lookup hashes its key: a list is unhashable.
Hashable(v) == v[1] # "list"

\* tool_name in tools, for a hashable key: exact match with a str key
Contains(registry, key) ==
    IsStr(key) /\ \E i \in 1..Len(registry) : registry[i].name = key[2]

IndexOf(registry, key) == CHOOSE i \in 1..Len(registry) : registry[i].name = key[2]

NoResponse == [status |-> 0, body |-> [pending |-> TRUE]]

Response(status, body) == [status |-> status, body |-> body]

\* Catch without the except clause: the exception leaves the dispatcher.
CatchFaultyEscapes(outcome) ==
    IF outcome.kind = "raise"
    THEN Response(0, [unhandled |-> outcome.message])
    ELSE outcome.value

\* try: ... except Exception as e: the 500 response carrying str(e)
Catch(outcome) ==
    IF outcome.kind = "raise"
    THEN Response(500, [error |-> outcome.message])
    ELSE outcome.value

UnknownTool(tool_name) == Response(400, [error |-> "Unknown tool: " \o Interpolate(tool_name)])

\* The lines of a dispatcher from the parsed body to the registry lookup:
\* "dispatch" when the tool is registered, else the outcome that ends the request.
Lookup(registry, body, parseError) ==
    IF body.kind = "malformed" THEN Raise(parseError)
    ELSE IF body.kind = "array" THEN Raise("'list' object has no attribute 'get'")
    ELSE IF ~Hashable(body.tool)
         THEN Raise("unhashable type: '" \o TypeName(body.tool) \o "'")
    ELSE IF ~Contains(registry, body.tool) THEN Return(UnknownTool(body.tool))
    ELSE [kind |-> "dispatch", index |-> IndexOf(registry, body.tool)]

(* ------------------------------------------------------------------ *)
(* Requests                                                            *)
(* ------------------------------------------------------------------ *)

\* The values of a request's tool field: the registered names, two unregistered
\* names, an absent field (get returns None) and a JSON array.
ToolValues ==
    { JStr(MockRegistry[i].name) : i \in 1..Len(MockRegistry) }
        \cup { JStr("nonexistent"), JStr("Semantics"), JNull, JList(<<"semantics">>) }

RegisteredToolValues == { JStr(MockRegistry[i].name) : i \in 1..Len(MockRegistry) }

\* The values of a request's input field in the server runs: absent, a number,
\* the empty text, a text, and a data URL of a decodable image.
SmallInputs ==
    { JNull, JNum(42), JStr(<<>>),
      JStr(<<"B","e","s","t"," ","d","a","y",".">>),
      JStr(<<"d","a","t","a",",","i","V","B","O">>) }

ObjectBody(tool, input) == [kind |-> "object", tool |-> tool, input |-> input]

\* A body that is JSON but no object, and one that is not JSON.
OtherBodies ==
    { [kind |-> "array", tool |-> JNull, input |-> JNull],
      [kind |-> "malformed", tool |-> JNull, input |-> JNull] }

Bodies(toolValues, inputs) ==
    { ObjectBody(t, x) : t \in toolValues, x \in inputs } \cup OtherBodies

Request(target, method, body) == [target |-> target, method |-> method, body |-> body]

NoRequest == Request("none", "none", [kind |-> "none", tool |-> JNull, input |-> JNull])

Requests ==
    { Request("flask_process", "POST", b) : b \in Bodies(ToolValues, SmallInputs) }
        \cup { Request("flask_health", "GET", [kind |-> "none", tool |-> JNull, input |-> JNull]) }
        \cup { Request("vercel", "POST", b) : b \in Bodies(ToolValues, SmallInputs) }
        \cup { Request("vercel", m, [kind |-> "none", tool |-> JNull, input |-> JNull]) :
                    m \in {"GET", "DELETE"} }

(* ------------------------------------------------------------------ *)
(* State                                                               *)
(* ------------------------------------------------------------------ *)

Threads == 1..NumThreads

IdleThread == [pc |-> "idle", tool |-> 0, input |-> JNull, served |-> 0, resp |-> NoResponse]

Init ==
    /\ tools = FlaskRegistry
    /\ mock_tools = MockRegistry
    /\ req = NoRequest
    /\ resp = NoResponse
    /\ pc = "idle"
    /\ trace = <<>>
    /\ threads = [t \in Threads |-> IdleThread]
    /\ initCount = [i \in 1..Len(FlaskRegistry) |-> 0]

(* ------------------------------------------------------------------ *)
(* Requests handled one at a time                                      *)
(* ------------------------------------------------------------------ *)

\* A request arrives at one of the entrypoints.
Receive ==
    /\ pc = "idle"
    /\ \E r \in Requests : req' = r
    /\ pc' = "handling"
    /\ resp' = NoResponse
    /\ trace' = <<>>
    /\ UNCHANGED <<tools, mock_tools, threads, initCount>>

\* process_request of src/ai_tools.py
process_request ==
    /\ pc = "handling"
    /\ req.target = "flask_process"
    /\ LET look == Lookup(tools, req.body, "400 Bad Request: Failed to decode JSON object")
       IN  IF look.kind # "dispatch"
           THEN /\ resp' = Catch(look)
                /\ trace' = <<>>
                /\ tools' = tools
           ELSE LET tool == tools[look.index]
                IN  \E initOk \in BOOLEAN, callOk \in BOOLEAN, ext \in ExternalOutputs(tool.cls) :
                        LET r == RealProcessQuery(tool.name, tool.cls, tool.model,
                                                  req.body.input, initOk, callOk, ext)
                        IN  /\ tools' = [tools EXCEPT ![look.index].model = r.model]
                            /\ trace' = r.events
                            /\ resp' = Catch(IF r.outcome.kind = "return"
                                             THEN Return(Response(200, r.outcome.value))
                                             ELSE r.outcome)
    /\ pc' = "idle"
    /\ UNCHANGED <<mock_tools, req, threads, initCount>>

\* health_check of src/ai_tools.py
health_check ==
    /\ pc = "handling"
    /\ req.target = "flask_health"
    /\ resp' = Response(200, [status |-> "ok", available_tools |-> Keys(tools)])
    /\ pc' = "idle"
    /\ UNCHANGED <<tools, mock_tools, req, trace, threads, initCount>>

\* handler of src/api/ai_tools.py (the Content-Type header of its 200
\* responses is left out of the response record)
handler ==
    /\ pc = "handling"
    /\ req.target = "vercel"
    /\ IF req.method = "POST"
       THEN LET look == Lookup(mock_tools, req.body, "Expecting value: line 1 column 1 (char 0)")
            IN  IF look.kind # "dispatch"
                THEN /\ resp' = Catch(look)
                     /\ trace' = <<>>
                ELSE LET tool == mock_tools[look.index]
                     IN  \E draw \in MockDraws(tool.cls) :
                            LET out == MockProcessQuery(tool.cls, req.body.input, draw)
                            IN  /\ trace' = <<Call(tool.name, "process_query", out)>>
                                /\ resp' = Catch(IF out.kind = "return"
                                                 THEN Return(Response(200, out.value))
                                                 ELSE out)
       ELSE IF req.method = "GET"
       THEN /\ resp' = Catch(Return(Response(200, [status |-> "ok",
                                                    available_tools |-> Keys(mock_tools)])))
            /\ trace' = <<>>
       ELSE /\ resp' = Catch(Return(Response(405, [text |-> "Method Not Allowed"])))
            /\ trace' = <<>>
    /\ pc' = "idle"
    /\ UNCHANGED <<tools, mock_tools, req, threads, initCount>>

Next == Receive \/ process_request \/ health_check \/ handler

Spec == Init /\ [][Next]_vars

(* ------------------------------------------------------------------ *)
(* The threaded Flask server: process_request line by line             *)
(* ------------------------------------------------------------------ *)

\* The bodies the server threads receive.
ThreadBodies ==
    { ObjectBody(t, JStr(<<"h","i">>)) : t \in RegisteredToolValues \cup {JStr("nonexistent")} }

Finish(th, response) ==
    [threads[th] EXCEPT !.pc = "idle", !.served = @ + 1, !.resp = response]

\* process_request up to tool = tools[tool_name] and the call of process_query
ThreadReceive(th) ==
    /\ threads[th].pc = "idle"
    /\ threads[th].served < MaxRequestsPerThread
    /\ \E body \in ThreadBodies :
          LET look == Lookup(tools, body, "400 Bad Request: Failed to decode JSON object")
          IN  threads' = [threads EXCEPT ![th] =
                  IF look.kind # "dispatch"
                  THEN Finish(th, Catch(look))
                  ELSE [threads[th] EXCEPT !.pc = "check", !.tool = look.index,
                                           !.input = body.input, !.resp = NoResponse]]
    /\ UNCHANGED <<tools, mock_tools, req, resp, pc, trace, initCount>>

\* if self.model is None:
ThreadCheck(th) ==
    /\ threads[th].pc = "check"
    /\ threads' = [threads EXCEPT ![th].pc =
                      IF NeedsInit(tools[threads[th].tool].model) THEN "init" ELSE "invoke"]
    /\ UNCHANGED <<tools, mock_tools, req, resp, pc, trace, initCount>>

\* self.init_model() is entered: pipeline(...) starts loading
ThreadInitCall(th) ==
    /\ threads[th].pc = "init"
    /\ initCount' = [initCount EXCEPT ![threads[th].tool] = @ + 1]
    /\ threads' = [threads EXCEPT ![th].pc = "loading"]
    /\ UNCHANGED <<tools, mock_tools, req, resp, pc, trace>>

\* pipeline(...) returns and self.model is assigned, or it raises
ThreadInitReturn(th) ==
    /\ threads[th].pc = "loading"
    /\ \E initOk \in BOOLEAN :
          /\ tools' = [tools EXCEPT ![threads[th].tool].model = ModelAfterInit(@, initOk)]
          /\ threads' = [threads EXCEPT ![th] =
                  IF initOk THEN [threads[th] EXCEPT !.pc = "invoke"]
                  ELSE Finish(th, Catch(Raise("pipeline could not be loaded")))]
    /\ UNCHANGED <<mock_tools, req, resp, pc, trace, initCount>>

\* the rest of process_query, and the response of process_request
ThreadInvoke(th) ==
    /\ threads[th].pc = "invoke"
    /\ LET tool == tools[threads[th].tool]
       IN  \E callOk \in BOOLEAN, ext \in ExternalOutputs(tool.cls) :
              LET out == RealInvoke(tool.cls, threads[th].input, callOk, ext)
              IN  threads' = [threads EXCEPT ![th] =
                      Finish(th, Catch(IF out.kind = "return"
                                       THEN Return(Response(200, out.value))
                                       ELSE out))]
    /\ UNCHANGED <<tools, mock_tools, req, resp, pc, trace, initCount>>

ThreadedNext ==
    \E th \in Threads :
        \/ ThreadReceive(th)
        \/ ThreadCheck(th)
        \/ ThreadInitCall(th)
        \/ ThreadInitReturn(th)
        \/ ThreadInvoke(th)

ThreadedSpec == Init /\ [][ThreadedNext]_vars

(* ------------------------------------------------------------------ *)
(* One call of the serverless handler, over larger inputs              *)
(* ------------------------------------------------------------------ *)

\* The pieces the input texts of the sentiment handler are made of.
WordChunks ==
    { <<"b","e","s","t">>, <<"L","o","v","e">>, <<"B","a","d">>, <<"s","a","d">>,
      <<"o","k">>, <<" ">>, <<"!">> }

\* The pieces the input texts of the summarizer are made of.
SentenceChunks == { <<"a",".","b","?"," ">>, <<"c">>, <<" ">>, <<"!">> }

\* Longest input text of the summarizer, in chunks of SentenceChunks.
MaxSentenceChunks == 5

RECURSIVE Texts(_, _)
\* The texts made of at most n chunks.
Texts(chunks, n) ==
    IF n = 0 THEN { <<>> }
    ELSE LET shorter == Texts(chunks, n - 1)
         IN  shorter \cup { t \o c : t \in shorter, c \in chunks }

\* The inputs tried on each tool value.
CallInputs(tool) ==
    IF tool = JStr("semantics")
    THEN { JStr(t) : t \in Texts(WordChunks, MaxChunks) } \cup {JNull}
    ELSE IF tool = JStr("summarizer")
    THEN { JStr(t) : t \in Texts(SentenceChunks, MaxSentenceChunks) } \cup {JNum(42)}
    ELSE SmallInputs

CallRequests ==
    { Request("vercel", "POST", b) :
        b \in UNION { Bodies({t}, CallInputs(t)) : t \in ToolValues } }
        \cup { Request("vercel", m, [kind |-> "none", tool |-> JNull, input |-> JNull]) :
                    m \in {"GET", "DELETE"} }

CallInit ==
    /\ tools = FlaskRegistry
    /\ mock_tools = MockRegistry
    /\ req \in CallRequests
    /\ resp = NoResponse
    /\ pc = "handling"
    /\ trace = <<>>
    /\ threads = [t \in Threads |-> IdleThread]
    /\ initCount = [i \in 1..Len(FlaskRegistry) |-> 0]

CallSpec == CallInit /\ [][handler]_vars

(* ------------------------------------------------------------------ *)
(* Properties                                                          *)
(* ------------------------------------------------------------------ *)

SixToolNames == <<"semantics", "image-classifier", "summarizer", "joke", "haiku", "question">>

NamesOf(registry) == [i \in 1..Len(registry) |-> registry[i].name]

\* The request in req has been answered.
Answered == pc = "idle" /\ req.target # "none"

\* The answered request asked a dispatcher to run a tool.
AnsweredDispatch ==
    /\ Answered
    /\ req.target \in {"flask_process", "vercel"}
    /\ req.method = "POST"
    /\ req.body.kind = "object"

IsErrorEnvelope(r) == DOMAIN r.body = {"error"}
IsResultEnvelope(r) == DOMAIN r.body = {"result"}

\* C1: a request whose tool value is not one of the six registered keys is
\* answered with status 400 and an error message containing the requested
\* name, and no handler is called.
C1_UnknownToolIsClientError ==
    (AnsweredDispatch /\ req.body.tool \notin { JStr(SixToolNames[i]) : i \in 1..6 })
        => /\ resp.status = 400
           /\ IsErrorEnvelope(resp)
           /\ resp.body.error = "Unknown tool: " \o Interpolate(req.body.tool)
           /\ trace = <<>>

\* C2: under concurrent first use, init_model runs at most once for each tool.
C2_InitAtMostOnce == \A i \in 1..Len(tools) : initCount[i] <= 1

\* C3 as stated: a registered tool and a string input always get a success
\* response carrying {result: string}, never an error envelope.
C3_RegisteredAlwaysSucceeds ==
    (AnsweredDispatch /\ req.body.tool \in { JStr(SixToolNames[i]) : i \in 1..6 }
                      /\ IsStr(req.body.input))
        => resp.status = 200 /\ IsResultEnvelope(resp)

\* C3 as amended: for a registered tool and a string input no exception escapes
\* the dispatcher; the serverless dispatcher answers 200 with {result}; the Flask
\* dispatcher answers 200 with {result} when process_query returns and 500 with
\* {error} when init_model, the image decoding or the pipeline call raises.
C3_RegisteredSucceedsUnlessHandlerRaises ==
    (AnsweredDispatch /\ req.body.tool \in { JStr(SixToolNames[i]) : i \in 1..6 }
                      /\ IsStr(req.body.input))
        => /\ Len(trace) >= 1
           /\ trace[1].op = "process_query"
           /\ trace[1].tool = req.body.tool[2]
           /\ req.target = "vercel" => trace[1].raised = ""
           /\ IF trace[1].raised = ""
              THEN resp.status = 200 /\ IsResultEnvelope(resp)
              ELSE resp.status = 500 /\ IsErrorEnvelope(resp)

C3_Witness ==
    /\ AnsweredDispatch
    /\ req.target = "flask_process"
    /\ req.body.tool = JStr("haiku")
    /\ IsStr(req.body.input)
    /\ resp.status = 500
    /\ tools[5].model = "Loaded"

\* The exception the handling of the answered request raised, "" when none:
\* from the body (not JSON, no object, an unhashable tool) or from a call.
RaisedInRequest ==
    IF ~(Answered /\ req.method = "POST") THEN ""
    ELSE IF req.body.kind = "malformed"
         THEN (IF req.target = "vercel" THEN "Expecting value: line 1 column 1 (char 0)"
               ELSE "400 Bad Request: Failed to decode JSON object")
    ELSE IF req.body.kind = "array" THEN "'list' object has no attribute 'get'"
    ELSE IF req.body.tool[1] = "list" THEN "unhashable type: 'list'"
    ELSE IF trace # <<>> THEN trace[1].raised
    ELSE ""

\* C4: an exception raised while a request is handled is answered with status
\* 500 and the exception's message as the error field; the server is then
\* ready for the next request and the registries are as they were built.
C4_ExceptionBecomesServerError ==
    RaisedInRequest # ""
        => /\ resp = Response(500, [error |-> RaisedInRequest])
           /\ pc = "idle"
           /\ NamesOf(tools) = SixToolNames
           /\ NamesOf(mock_tools) = SixToolNames

C4_Witness ==
    /\ Answered
    /\ req.target = "vercel"
    /\ req.body.kind = "object"
    /\ req.body.tool = JStr("semantics")
    /\ req.body.input = JNull
    /\ resp = Response(500, [error |-> "'NoneType' object has no attribute 'lower'"])

\* C5: in every state both registries hold exactly the six names, and an
\* answered readiness probe carries status ok and exactly those names.
C5_RegistryFixed ==
    /\ NamesOf(tools) = SixToolNames
    /\ NamesOf(mock_tools) = SixToolNames
    /\ (Answered /\ (req.target = "flask_health" \/ (req.target = "vercel" /\ req.method = "GET")))
          => resp = Response(200, [status |-> "ok", available_tools |-> SixToolNames])

C5_Witness ==
    /\ Answered
    /\ req.target = "flask_health"
    /\ resp.status = 200
    /\ tools[1].model = "Loaded"
    /\ tools[2].model = "None"

PositiveResults ==
    { "Sentiment: POSITIVE (confidence: " \o p \o ")" : p \in {"70.00%", "80.00%", "90.00%", "95.00%"} }

NegativeResults ==
    { "Sentiment: NEGATIVE (confidence: " \o p \o ")" : p \in {"70.00%", "80.00%", "90.00%", "95.00%"} }

\* The serverless dispatcher has answered a call of `tool` on a string input.
MockCalled(tool) ==
    /\ AnsweredDispatch
    /\ req.target = "vercel"
    /\ req.body.tool = JStr(tool)
    /\ IsStr(req.body.input)

\* C6: the mock sentiment handler answers POSITIVE when every word of the input
\* is a positive word, NEGATIVE when every word is a negative word, and NEUTRAL
\* with confidence 50.00% when the input has as many distinct positive as
\* negative words (none of either included).
C6_SentimentLabels ==
    MockCalled("semantics")
        => LET words == Words(req.body.input[2])
           IN  /\ resp.status = 200
               /\ (words # {} /\ words \subseteq positive_words)
                     => resp.body.result \in PositiveResults
               /\ (words # {} /\ words \subseteq negative_words)
                     => resp.body.result \in NegativeResults
               /\ Cardinality(words \cap positive_words) = Cardinality(words \cap negative_words)
                     => resp.body.result = "Sentiment: NEUTRAL (confidence: 50.00%)"

C6_Witness ==
    /\ MockCalled("semantics")
    /\ req.body.input[2] = <<"b","e","s","t"," ","B","a","d">>
    /\ resp.body.result = "Sentiment: NEUTRAL (confidence: 50.00%)"

\* The label lines of the mock image classifier, by descending score.
ImageLines ==
    << "- cat: 87.00%\n", "- food: 81.00%\n", "- landscape: 78.00%\n",
       "- dog: 72.00%\n", "- person: 69.00%\n", "- bird: 65.00%\n" >>

C8_SummaryNoLonger ==
    MockCalled("summarizer")
        => resp.status = 200 /\ Len(resp.body.result) <= Len(req.body.input[2])

\* C8 as amended: the summary of the mock summarizer is at most one character
\* longer than the input text.
C8_SummaryAtMostOneLonger ==
    MockCalled("summarizer")
        => resp.status = 200 /\ Len(resp.body.result) <= Len(req.body.input[2]) + 1

C8_Witness ==
    /\ MockCalled("summarizer")
    /\ req.body.input[2] = <<"a",".","b","?"," ","a",".","b","?"," ","a",".","b","?"," ">>
    /\ resp.body.result = "a. b."

\* The calls of init_model among the calls of a request.
InitCalls(events, name) ==
    SelectSeq(events, LAMBDA e : e.op = "init_model" /\ e.tool = name)

\* A step in which process_request runs the handler of registry entry i.
Runs(i) ==
    /\ pc = "handling" /\ pc' = "idle"
    /\ req.target = "flask_process"
    /\ trace' # <<>>
    /\ trace'[1].tool = tools[i].name

\* C9: requests handled one at a time: a handler whose model is None is
\* initialized by the process_query that finds it so; once init_model has
\* succeeded the model is never None again and init_model is not called again;
\* a request for one tool neither calls nor changes another tool's handler.
C9_LazyInitOnceAndReused ==
    [][ \A i \in 1..Len(tools) :
          /\ tools[i].model = "Loaded"
                => tools'[i].model = "Loaded" /\ InitCalls(trace', tools[i].name) = <<>>
          /\ (Runs(i) /\ tools[i].model = "None")
                => Len(InitCalls(trace', tools[i].name)) = 1
          /\ (Runs(i) /\ tools[i].model = "None" /\ InitCalls(trace', tools[i].name)[1].raised = "")
                => tools'[i].model = "Loaded"
          /\ ~Runs(i) => tools'[i] = tools[i]
          /\ (pc = "handling" /\ req.target = "flask_process" /\ ~Runs(i))
                => \A n \in 1..Len(trace') : trace'[n].tool # tools[i].name
      ]_vars

C9_Witness ==
    /\ Answered
    /\ req.target = "flask_process"
    /\ tools[1].model = "Loaded"
    /\ tools[4].model = "None"
    /\ trace = <<[tool |-> "semantics", op |-> "process_query", raised |-> ""]>>

\* C10: when init_model raises, the request is answered with status 500 and
\* the exception's message, init_model was called once in the request, and the
\* model is None afterwards; a later request that finds the model None calls
\* init_model again.
C10_FailedInitIsRetriedNextRequest ==
    [][ \A i \in 1..Len(tools) :
          /\ (Runs(i) /\ tools[i].model = "None")
                => Len(InitCalls(trace', tools[i].name)) = 1
          /\ (Runs(i) /\ InitCalls(trace', tools[i].name) # <<>>
                      /\ InitCalls(trace', tools[i].name)[1].raised # "")
                => /\ resp' = Response(500, [error |-> InitCalls(trace', tools[i].name)[1].raised])
                   /\ tools'[i].model = "None"
                   /\ Len(InitCalls(trace', tools[i].name)) = 1
                   /\ Len(trace') = 2
      ]_vars

C10_Witness ==
    /\ Answered
    /\ req.target = "flask_process"
    /\ req.body.tool = JStr("joke")
    /\ trace = << [tool |-> "joke", op |-> "process_query", raised |-> "pipeline could not be loaded"],
                  [tool |-> "joke", op |-> "init_model", raised |-> "pipeline could not be loaded"] >>
    /\ resp.status = 500
    /\ tools[4].model = "None"

====
